---- MODULE Spec2Model ----
(***************************************************************************)
(* A model of the unarXive LaTeX pipeline:                                 *)
(*   normalize_arxiv_dump.py   read_file, read_gzipped_file, normalize     *)
(*   convert_latex_to_xml.py   the tralics batch loop                      *)
(*   convert_latex_to_gorc.py  process_authors, process_paragraph and the  *)
(*                             module-level extraction loop                *)
(* Text is a sequence of one-character strings, so that the regular        *)
(* expressions and the string methods of the code are computed, character  *)
(* by character, the way Python computes them.                             *)
(***************************************************************************)
EXTENDS Integers, Sequences, FiniteSets, TLC

VARIABLES
    \* process_authors called on its own
    author_text, minimal, author_entries, a_pc,
    \* read_file / read_gzipped_file
    blob, is_gzip, magic_label, chardet_label, cntnt, r_pc,
    \* normalize(IN_DIR, OUT_DIR)
    fn, files, main_tex_path, ignored_names, latexpand_args, out_tex, log_txt, n_pc,
    \* convert_latex_to_xml.py
    x_tex, x_runs, xml_dir, skipped_files, x_pc,
    \* convert_latex_to_gorc.py, the loop over the .tex files
    g_tex, g_runs, g_xml_dir, out_json, g_pc,
    \* convert_latex_to_gorc.py, the extraction of one paper
    xml, soup, bibkey_map, body_text, title, authors, year, abstract, ps,
    gorc_entry, e_pc, e_exc

a_vars == <<author_text, minimal, author_entries, a_pc>>
r_vars == <<blob, is_gzip, magic_label, chardet_label, cntnt, r_pc>>
n_vars == <<fn, files, main_tex_path, ignored_names, latexpand_args, out_tex,
            log_txt, n_pc>>
x_vars == <<x_tex, x_runs, xml_dir, skipped_files, x_pc>>
g_vars == <<g_tex, g_runs, g_xml_dir, out_json, g_pc>>
e_vars == <<xml, soup, bibkey_map, body_text, title, authors, year, abstract, ps,
            gorc_entry, e_pc, e_exc>>
vars == <<a_vars, r_vars, n_vars, x_vars, g_vars, e_vars>>

(***************************************************************************)
(* Bounds of the model.                                                    *)
(***************************************************************************)
MaxPieces == 5
MaxBlob == 3
MaxPapers == 2
MaxFiles == 2
MaxTex == 2
MaxRuns == 2
MaxInline == 2
MaxFront == 4

(***************************************************************************)
(* Strings.                                                                *)
(***************************************************************************)
\* Python's \s on the characters of the model's alphabet.
IsSpace(c) == c \in {" ", "\n", "\t"}

\* Python's \d.
IsDigit(c) == c \in {"0", "1", "2", "3", "4", "5", "6", "7", "8", "9"}

\* str.upper(), per character, on the letters the model uses.
UpperChar(c) ==
    CASE c = "b" -> "B" [] c = "i" -> "I" [] c = "d" -> "D"
      [] c = "s" -> "S" [] c = "e" -> "E" [] c = "c" -> "C"
      [] c = "k" -> "K" [] OTHER -> c

Upper(s) == [i \in 1..Len(s) |-> UpperChar(s[i])]

\* str.lower(), per character (re.I in the extension patterns).
LowerChar(c) ==
    CASE c = "T" -> "t" [] c = "E" -> "e" [] c = "X" -> "x"
      [] c = "P" -> "p" [] c = "D" -> "d" [] c = "F" -> "f"
      [] c = "N" -> "n" [] c = "G" -> "g" [] c = "B" -> "b"
      [] c = "I" -> "i" [] c = "O" -> "o" [] c = "C" -> "c"
      [] c = "U" -> "u" [] c = "M" -> "m" [] OTHER -> c

Lower(s) == [i \in 1..Len(s) |-> LowerChar(s[i])]

\* re.sub(r'\s', ' ', s): every whitespace character becomes one space.
SubSpace(s) == [i \in 1..Len(s) |-> IF IsSpace(s[i]) THEN " " ELSE s[i]]

RECURSIVE Concat(_)
\* ''.join(parts)
Concat(parts) ==
    IF parts = <<>> THEN <<>> ELSE Head(parts) \o Concat(Tail(parts))

RECURSIVE LStrip(_)
LStrip(s) == IF s # <<>> /\ IsSpace(Head(s)) THEN LStrip(Tail(s)) ELSE s

RECURSIVE RStrip(_)
RStrip(s) ==
    IF s # <<>> /\ IsSpace(s[Len(s)]) THEN RStrip(SubSeq(s, 1, Len(s) - 1)) ELSE s

\* str.strip()
Strip(s) == RStrip(LStrip(s))

RECURSIVE SplitOn(_, _, _)
\* str.split(sep) for a one-character separator; cur is the fragment being read.
SplitOn(s, sep, cur) ==
    IF s = <<>> THEN <<cur>>
    ELSE IF Head(s) = sep THEN <<cur>> \o SplitOn(Tail(s), sep, <<>>)
    ELSE SplitOn(Tail(s), sep, Append(cur, Head(s)))

RECURSIVE SplitWs(_, _)
\* str.split(): the maximal runs of non-whitespace characters.
SplitWs(s, cur) ==
    IF s = <<>> THEN (IF cur = <<>> THEN <<>> ELSE <<cur>>)
    ELSE IF IsSpace(Head(s))
         THEN (IF cur = <<>> THEN <<>> ELSE <<cur>>) \o SplitWs(Tail(s), <<>>)
    ELSE SplitWs(Tail(s), Append(cur, Head(s)))

\* The elements of seq that satisfy Keep, in order.
SelectNonEmpty(seq) == SelectSeq(seq, LAMBDA x : x # <<>>)

(***************************************************************************)
(* convert_latex_to_gorc.py: process_authors                               *)
(***************************************************************************)
RECURSIVE SubAnd(_)
\* re.sub(r'\sand\s', ',', s): leftmost non-overlapping matches.
SubAnd(s) ==
    IF s = <<>> THEN <<>>
    ELSE IF /\ Len(s) >= 5
            /\ IsSpace(s[1])
            /\ s[2] = "a" /\ s[3] = "n" /\ s[4] = "d"
            /\ IsSpace(s[5])
         THEN <<",">> \o SubAnd(SubSeq(s, 6, Len(s)))
    ELSE <<Head(s)>> \o SubAnd(Tail(s))

NameSuffixes ==
    { <<"J", "r">>, <<"S", "r">>, <<"I", "I", "I">>, <<"I", "V">>, <<"V">> }

\* Lines 27-29: the names, one per non-empty fragment.
AuthorNames(text) ==
    LET replaced == SubSpace(SubAnd(text))
        stripped == [i \in 1..Len(SplitOn(replaced, ",", <<>>)) |->
                        Strip(SplitOn(replaced, ",", <<>>)[i])]
    IN  SelectNonEmpty(stripped)

\* Lines 33-55, one name.  raised is the exception that leaves the function.
NameEntry(name, min) ==
    LET parts0 == SplitWs(name, <<>>)
        hasSuffix == parts0[Len(parts0)] \in NameSuffixes
        suffix == IF hasSuffix THEN parts0[Len(parts0)] ELSE <<>>
        name_parts == IF hasSuffix THEN SubSeq(parts0, 1, Len(parts0) - 1) ELSE parts0
    IN  IF name_parts = <<>>
        THEN [raised |-> "IndexError", entry |-> <<>>]
        ELSE [raised |-> "",
              entry |->
                IF min
                THEN [first |-> name_parts[1],
                      middle |-> SubSeq(name_parts, 2, Len(name_parts) - 1),
                      last |-> name_parts[Len(name_parts)],
                      suffix |-> suffix]
                ELSE [first |-> name_parts[1],
                      middle |-> SubSeq(name_parts, 2, Len(name_parts) - 1),
                      last |-> name_parts[Len(name_parts)],
                      suffix |-> suffix,
                      affiliation |-> <<>>,
                      email |-> <<>>]]

\* process_authors(author_text, minimal): the list, or the exception raised.
process_authors(text, min) ==
    LET names == AuthorNames(text)
        made == [i \in 1..Len(names) |-> NameEntry(names[i], min)]
    IN  IF \E i \in 1..Len(names) : made[i].raised # ""
        THEN [raised |-> "IndexError", value |-> <<>>]
        ELSE [raised |-> "", value |-> [i \in 1..Len(names) |-> made[i].entry]]

\* The pieces author strings are put together from.
AuthorPieces ==
    { <<" ">>, <<"\n">>, <<",">>, <<"a", "n", "d">>, <<"V">>, <<"J", "r">>, <<"x">> }

RECURSIVE PieceStrings(_)
\* The concatenations of at most n pieces.
PieceStrings(n) ==
    IF n = 0 THEN { <<>> }
    ELSE PieceStrings(n - 1) \cup
         { s \o p : s \in PieceStrings(n - 1), p \in AuthorPieces }

AuthorsInit ==
    /\ author_text \in PieceStrings(MaxPieces)
    /\ minimal \in BOOLEAN
    /\ author_entries = [raised |-> "", value |-> <<>>]
    /\ a_pc = "call"

CallProcessAuthors ==
    /\ a_pc = "call"
    /\ author_entries' = process_authors(author_text, minimal)
    /\ a_pc' = "returned"
    /\ UNCHANGED <<author_text, minimal>>
    /\ UNCHANGED <<r_vars, n_vars, x_vars, g_vars, e_vars>>

(***************************************************************************)
(* normalize_arxiv_dump.py: read_file, read_gzipped_file                   *)
(* A blob is a sequence of bytes, a decoded text a sequence of code        *)
(* points.  The two detectors (libmagic, chardet) are libraries outside    *)
(* the repository: the label each returns is an input.                     *)
(***************************************************************************)
ReplacementChar == 65533

IsCont(b) == b >= 128 /\ b <= 191

RECURSIVE Utf8(_, _)
\* bytes.decode('utf-8', errors): ok is FALSE when a strict decode raises
\* UnicodeDecodeError; with replace every maximal invalid part is U+FFFD.
Utf8(b, replace) ==
    IF b = <<>> THEN [ok |-> TRUE, text |-> <<>>]
    ELSE
      LET one(cp, n) ==
            LET rest == Utf8(SubSeq(b, n + 1, Len(b)), replace)
            IN  [ok |-> rest.ok, text |-> <<cp>> \o rest.text]
          bad(n) ==
            IF replace THEN one(ReplacementChar, n) ELSE [ok |-> FALSE, text |-> <<>>]
      IN  IF b[1] < 128 THEN one(b[1], 1)
          ELSE IF b[1] >= 194 /\ b[1] <= 223
               THEN IF Len(b) >= 2 /\ IsCont(b[2])
                    THEN one((b[1] - 192) * 64 + (b[2] - 128), 2)
                    ELSE bad(1)
          ELSE IF b[1] >= 225 /\ b[1] <= 236
               THEN IF Len(b) >= 3 /\ IsCont(b[2]) /\ IsCont(b[3])
                    THEN one((b[1] - 224) * 4096 + (b[2] - 128) * 64 + (b[3] - 128), 3)
                    ELSE IF Len(b) >= 2 /\ IsCont(b[2]) THEN bad(2) ELSE bad(1)
          ELSE bad(1)

\* bytes.decode('ascii', errors)
Ascii(b, replace) ==
    IF \A i \in 1..Len(b) : b[i] < 128 THEN [ok |-> TRUE, text |-> b]
    ELSE IF replace
         THEN [ok |-> TRUE,
               text |-> [i \in 1..Len(b) |-> IF b[i] < 128 THEN b[i] ELSE ReplacementChar]]
    ELSE [ok |-> FALSE, text |-> <<>>]

\* The labels the detectors return for which Python has a codec.
Utf8Labels == {"utf-8"}
AsciiLabels == {"us-ascii", "ascii"}
Latin1Labels == {"iso-8859-1", "ISO-8859-1"}

\* blob.decode(encoding, errors=...): the text, or the exception raised.
Decode(b, encoding, replace) ==
    LET done(r) == IF r.ok THEN [exc |-> "", text |-> r.text]
                   ELSE [exc |-> "UnicodeDecodeError", text |-> <<>>]
    IN  IF encoding \in Utf8Labels THEN done(Utf8(b, replace))
        ELSE IF encoding \in AsciiLabels THEN done(Ascii(b, replace))
        ELSE IF encoding \in Latin1Labels THEN [exc |-> "", text |-> b]
        ELSE [exc |-> "LookupError", text |-> <<>>]

\* What a read returns: a str, the bool False, or an exception that leaves it.
StrResult(t) == [raised |-> "", kind |-> "str", text |-> t]
FalseResult == [raised |-> "", kind |-> "bool", text |-> <<>>]
RaisedResult(e) == [raised |-> e, kind |-> "", text |-> <<>>]

\* read_file(path) on a file of content b.  open(path) decodes strictly with
\* the default encoding, UTF-8.
read_file(b, magic, chardet) ==
    LET first == Utf8(b, FALSE)
        sniffed == Decode(b, magic, FALSE)
        detected == Decode(b, chardet, TRUE)
    IN  IF first.ok THEN StrResult(first.text)
        ELSE IF sniffed.exc = "" THEN StrResult(sniffed.text)
        ELSE IF chardet # "None"
             THEN IF detected.exc = "" THEN StrResult(detected.text)
                  ELSE StrResult(<<>>)
        ELSE StrResult(<<>>)

\* read_gzipped_file(path) on a gzip file whose decompressed content is b.
read_gzipped_file(b, magic, chardet) ==
    LET sniffed == Decode(b, magic, FALSE)
        detected == Decode(b, chardet, TRUE)
    IN  IF sniffed.exc = "" THEN StrResult(sniffed.text)
        ELSE IF chardet = "None" THEN FalseResult
        ELSE IF detected.exc = "" THEN StrResult(detected.text)
        ELSE RaisedResult(detected.exc)

BlobBytes == {0, 65, 169, 195, 233}
MagicLabels == {"utf-8", "us-ascii", "iso-8859-1", "binary", "unknown-8bit"}
ChardetLabels == {"None", "utf-8", "ascii", "ISO-8859-1", "EUC-TW"}

RECURSIVE Blobs(_)
Blobs(n) ==
    IF n = 0 THEN { <<>> }
    ELSE Blobs(n - 1) \cup { Append(b, x) : b \in Blobs(n - 1), x \in BlobBytes }

ReaderInit ==
    /\ blob \in Blobs(MaxBlob)
    /\ is_gzip \in BOOLEAN
    /\ magic_label \in MagicLabels
    /\ chardet_label \in ChardetLabels
    /\ cntnt = StrResult(<<>>)
    /\ r_pc = "call"

CallReadFile ==
    /\ r_pc = "call" /\ ~is_gzip
    /\ cntnt' = read_file(blob, magic_label, chardet_label)
    /\ r_pc' = "returned"
    /\ UNCHANGED <<blob, is_gzip, magic_label, chardet_label>>
    /\ UNCHANGED <<a_vars, n_vars, x_vars, g_vars, e_vars>>

CallReadGzippedFile ==
    /\ r_pc = "call" /\ is_gzip
    /\ cntnt' = read_gzipped_file(blob, magic_label, chardet_label)
    /\ r_pc' = "returned"
    /\ UNCHANGED <<blob, is_gzip, magic_label, chardet_label>>
    /\ UNCHANGED <<a_vars, n_vars, x_vars, g_vars, e_vars>>

(***************************************************************************)
(* normalize_arxiv_dump.py: normalize                                      *)
(* A paper's directory is the sequence os.listdir returns: files with a    *)
(* name and with what read_file gives for them (the text, or the OSError   *)
(* of open()).  A name holds no line break.                                *)
(***************************************************************************)
\* os.path.splitext(tfn)[1]: from the last dot, unless only dots precede it.
Splitext1(name) ==
    LET dots == {i \in 1..Len(name) : name[i] = "."}
        last == CHOOSE i \in dots : \A j \in dots : j <= i
    IN  IF dots = {} THEN <<>>
        ELSE IF \A j \in 1..(last - 1) : name[j] = "." THEN <<>>
        ELSE SubSeq(name, last, Len(name))

\* TEX_EXT_PATT.match(ext): ^\.tex$ with re.I
TEX_EXT_PATT(ext) == Lower(ext) = <<".", "t", "e", "x">>

\* NON_TEXT_PATT.match(ext): ^\.(pdf|eps|jpg|png|gif)$ with re.I
NON_TEXT_PATT(ext) ==
    Lower(ext) \in { <<".", "p", "d", "f">>, <<".", "e", "p", "s">>,
                     <<".", "j", "p", "g">>, <<".", "p", "n", "g">>,
                     <<".", "g", "i", "f">> }

RECURSIVE SkipSpace(_, _)
\* The first position from i on that holds no whitespace (\s*, greedy).
SkipSpace(s, i) ==
    IF i <= Len(s) /\ IsSpace(s[i]) THEN SkipSpace(s, i + 1) ELSE i

\* The literal lit stands in s at position i, whatever the case (re.I).
LitAt(s, i, lit) ==
    /\ i + Len(lit) - 1 <= Len(s)
    /\ Lower(SubSeq(s, i, i + Len(lit) - 1)) = lit

\* MAIN_TEX_PATT matches at position i: \\begin\s*\{\s*document\s*\}
MainTexAt(s, i) ==
    LET i1 == SkipSpace(s, i + 6)
        i2 == SkipSpace(s, i1 + 1)
        i3 == SkipSpace(s, i2 + 8)
    IN  /\ LitAt(s, i, <<"\\", "b", "e", "g", "i", "n">>)
        /\ LitAt(s, i1, <<"{">>)
        /\ LitAt(s, i2, <<"d", "o", "c", "u", "m", "e", "n", "t">>)
        /\ LitAt(s, i3, <<"}">>)

\* re.search(MAIN_TEX_PATT, cntnt) is not None
MAIN_TEX_PATT(s) == \E i \in 1..Len(s) : MainTexAt(s, i)

NoPath == <<>>

RECURSIVE TexLoop(_, _, _)
\* Lines 122-134: the loop over the listing; acc is main_tex_path and
\* ignored_names so far.
TexLoop(listing, k, acc) ==
    IF k > Len(listing) THEN acc
    ELSE
      LET f == listing[k]
      IN  IF ~TEX_EXT_PATT(Splitext1(f.name))
          THEN TexLoop(listing, k + 1,
                       [acc EXCEPT !.ignored = Append(@, f.name)])
          ELSE IF f.read.raised # ""
               THEN TexLoop(listing, k + 1, acc)
          ELSE IF MAIN_TEX_PATT(f.read.text)
               THEN TexLoop(listing, k + 1, [acc EXCEPT !.main = f.name])
          ELSE TexLoop(listing, k + 1, acc)

\* The file of that name in the listing (os.path.join(path, tfn)).
FileNamed(listing, name) ==
    listing[CHOOSE k \in 1..Len(listing) : listing[k].name = name]

RECURSIVE OtherLoop(_, _, _, _)
\* Lines 138-146: the loop over ignored_names.
OtherLoop(listing, ignored, k, main) ==
    IF k > Len(ignored) THEN main
    ELSE
      LET f == FileNamed(listing, ignored[k])
      IN  IF NON_TEXT_PATT(Splitext1(f.name))
          THEN OtherLoop(listing, ignored, k + 1, main)
          ELSE IF f.read.raised # ""
               THEN OtherLoop(listing, ignored, k + 1, main)
          ELSE IF MAIN_TEX_PATT(f.read.text)
               THEN OtherLoop(listing, ignored, k + 1, f.name)
          ELSE OtherLoop(listing, ignored, k + 1, main)

\* The locator without line 137's test: the other files are searched even when a
\* .tex file was found.
LocateMainTexUnguarded(listing) ==
    LET first == TexLoop(listing, 1, [main |-> NoPath, ignored |-> <<>>])
    IN  [first EXCEPT !.main = OtherLoop(listing, first.ignored, 1, first.main)]

\* Lines 117-146: main_tex_path and ignored_names for one directory.
LocateMainTex(listing) ==
    LET first == TexLoop(listing, 1, [main |-> NoPath, ignored |-> <<>>])
    IN  IF first.main = NoPath
        THEN [first EXCEPT !.main = OtherLoop(listing, first.ignored, 1, NoPath)]
        ELSE first

FileNames ==
    { <<"a", ".", "t", "e", "x">>, <<"b", ".", "T", "e", "X">>,
      <<"c", ".", "t", "x", "t">>, <<"d", ".", "P", "D", "F">>,
      <<".", "t", "e", "x">> }

FileReads ==
    { StrResult(<<"\\", "B", "e", "g", "i", "n", " ", "{", "d", "o", "c", "u",
                  "m", "e", "n", "t", "\n", "}">>),
      StrResult(<<"\\", "b", "e", "g", "i", "n", "{", "d", "o", "c", "}">>),
      StrResult(<<>>),
      RaisedResult("OSError") }

DirFiles == [name : FileNames, read : FileReads]

RECURSIVE Listings(_)
\* The listings of n files, no name twice.
Listings(n) ==
    IF n = 0 THEN { <<>> }
    ELSE UNION { { Append(l, f) :
                     f \in { g \in DirFiles :
                                \A k \in 1..Len(l) : l[k].name # g.name } } :
                 l \in Listings(n - 1) }

PaperDirs == UNION { Listings(n) : n \in 0..MaxFiles }

NormalizeInit ==
    /\ fn = 0
    /\ files = <<>>
    /\ main_tex_path = NoPath
    /\ ignored_names = <<>>
    /\ latexpand_args = <<>>
    /\ out_tex = {}
    /\ log_txt = <<>>
    /\ n_pc = "enter"

\* Lines 106-111: IN_DIR is a directory, or the call returns False.
NormalizeEnter ==
    /\ n_pc = "enter"
    /\ \E isdir \in BOOLEAN : n_pc' = IF isdir THEN "next" ELSE "returned_false"
    /\ UNCHANGED <<fn, files, main_tex_path, ignored_names, latexpand_args,
                   out_tex, log_txt>>
    /\ UNCHANGED <<a_vars, r_vars, x_vars, g_vars, e_vars>>

\* Lines 113-146: the next entry of IN_DIR is a directory and is searched.
LocateMain ==
    /\ n_pc = "next" /\ fn < MaxPapers
    /\ \E listing \in PaperDirs :
         LET found == LocateMainTex(listing)
         IN  /\ files' = listing
             /\ main_tex_path' = found.main
             /\ ignored_names' = found.ignored
    /\ fn' = fn + 1
    /\ n_pc' = "located"
    /\ UNCHANGED <<latexpand_args, out_tex, log_txt>>
    /\ UNCHANGED <<a_vars, r_vars, x_vars, g_vars, e_vars>>

\* Line 122: the next entry of IN_DIR is no directory; os.listdir raises.
ListdirRaises ==
    /\ n_pc = "next" /\ fn < MaxPapers
    /\ fn' = fn + 1
    /\ n_pc' = "raised"
    /\ UNCHANGED <<files, main_tex_path, ignored_names, latexpand_args, out_tex,
                   log_txt>>
    /\ UNCHANGED <<a_vars, r_vars, x_vars, g_vars, e_vars>>

\* Lines 148-152: no main file; the paper is logged and skipped.  The loop
\* turns to its next entry, where lines 118-119 reset the two locals.
GiveUp ==
    /\ n_pc = "located" /\ main_tex_path = NoPath
    /\ log_txt' = Append(log_txt, fn)
    /\ n_pc' = "next"
    /\ files' = <<>> /\ main_tex_path' = NoPath /\ ignored_names' = <<>>
    /\ UNCHANGED <<fn, latexpand_args, out_tex>>
    /\ UNCHANGED <<a_vars, r_vars, x_vars, g_vars, e_vars>>

\* Lines 160-174: the arguments latexpand is run with.
LatexpandArgs(bbl_files, main) ==
    IF bbl_files # <<>>
    THEN <<"latexpand", "--expand-bbl", bbl_files[1], main, "--output", "temp_tex_fn">>
    ELSE <<"latexpand", main, "--output", "temp_tex_fn">>

\* Lines 154-190: latexpand runs, its output is read again and written out.
\* subprocess.run has no check=True: a failed latexpand only leaves no output,
\* and read_file's open() then raises FileNotFoundError, which nothing catches.
Flatten ==
    /\ n_pc = "located" /\ main_tex_path # NoPath
    /\ \E bbl_files \in { <<>>, <<"r.bbl">> } :
         latexpand_args' = LatexpandArgs(bbl_files, main_tex_path)
    /\ \E output \in {"written", "absent"} :
         IF output = "written"
         THEN /\ out_tex' = out_tex \cup {fn}
              /\ n_pc' = "next"
              /\ files' = <<>> /\ main_tex_path' = NoPath /\ ignored_names' = <<>>
         ELSE /\ out_tex' = out_tex
              /\ n_pc' = "raised"
              /\ UNCHANGED <<files, main_tex_path, ignored_names>>
    /\ UNCHANGED <<fn, log_txt>>
    /\ UNCHANGED <<a_vars, r_vars, x_vars, g_vars, e_vars>>

\* Line 192: the listing is exhausted.
NormalizeReturn ==
    /\ n_pc = "next" /\ fn = MaxPapers
    /\ n_pc' = "returned_true"
    /\ UNCHANGED <<fn, files, main_tex_path, ignored_names, latexpand_args,
                   out_tex, log_txt>>
    /\ UNCHANGED <<a_vars, r_vars, x_vars, g_vars, e_vars>>

(***************************************************************************)
(* convert_latex_to_xml.py and the loop of convert_latex_to_gorc.py        *)
(* LATEX_DIR holds the papers 1..MaxTex.  A paper's tralics output file is *)
(* absent, complete, or partial: what a tralics killed at the timeout had  *)
(* written by then.  Each script may be run again over the same            *)
(* directories.                                                            *)
(***************************************************************************)
TexFiles == 1..MaxTex

\* Lines 19-21 of convert_latex_to_xml.py: both logs are opened with 'w+'.
XmlStart ==
    /\ x_pc \in {"start", "done"} /\ x_runs < MaxRuns
    /\ x_runs' = x_runs + 1
    /\ skipped_files' = <<>>
    /\ x_tex' = 0
    /\ x_pc' = "loop"
    /\ UNCHANGED xml_dir
    /\ UNCHANGED <<a_vars, r_vars, n_vars, g_vars, e_vars>>

\* Lines 27, 45: the output of an earlier run exists; tralics is not run.
XmlExists ==
    /\ x_pc = "loop" /\ x_tex < MaxTex
    /\ xml_dir[x_tex + 1] # "absent"
    /\ x_tex' = x_tex + 1
    /\ UNCHANGED <<x_runs, xml_dir, skipped_files, x_pc>>
    /\ UNCHANGED <<a_vars, r_vars, n_vars, g_vars, e_vars>>

\* Lines 27-40, 45-47: tralics ends within the timeout, with or without output;
\* without, the paper goes to the skip list.
XmlTralicsEnds ==
    /\ x_pc = "loop" /\ x_tex < MaxTex
    /\ xml_dir[x_tex + 1] = "absent"
    /\ \E output \in {"complete", "absent"} :
         /\ xml_dir' = [xml_dir EXCEPT ![x_tex + 1] = output]
         /\ skipped_files' = IF output = "absent"
                             THEN Append(skipped_files, x_tex + 1)
                             ELSE skipped_files
    /\ x_tex' = x_tex + 1
    /\ UNCHANGED <<x_runs, x_pc>>
    /\ UNCHANGED <<a_vars, r_vars, n_vars, g_vars, e_vars>>

\* Lines 39-42: subprocess.run raises TimeoutExpired; the loop continues.
XmlTralicsTimeout ==
    /\ x_pc = "loop" /\ x_tex < MaxTex
    /\ xml_dir[x_tex + 1] = "absent"
    /\ \E output \in {"partial", "absent"} :
         xml_dir' = [xml_dir EXCEPT ![x_tex + 1] = output]
    /\ x_tex' = x_tex + 1
    /\ UNCHANGED <<x_runs, skipped_files, x_pc>>
    /\ UNCHANGED <<a_vars, r_vars, n_vars, g_vars, e_vars>>

\* Line 49: the loop is over and the logs are closed.
XmlDone ==
    /\ x_pc = "loop" /\ x_tex = MaxTex
    /\ x_pc' = "done"
    /\ UNCHANGED <<x_tex, x_runs, xml_dir, skipped_files>>
    /\ UNCHANGED <<a_vars, r_vars, n_vars, g_vars, e_vars>>

\* Lines 127-130 of convert_latex_to_gorc.py: a run starts.
GorcStart ==
    /\ g_pc \in {"start", "done", "raised"} /\ g_runs < MaxRuns
    /\ g_runs' = g_runs + 1
    /\ g_tex' = 0
    /\ g_pc' = "loop"
    /\ UNCHANGED <<g_xml_dir, out_json>>
    /\ UNCHANGED <<a_vars, r_vars, n_vars, x_vars, e_vars>>

\* Lines 157-302: the XML file is parsed (lxml recovers from a cut-off file) and
\* the record is written, unless the extraction raises, which ends the script.
Extracted(tex, raises) ==
    IF raises
    THEN /\ g_pc' = "raised"
         /\ UNCHANGED out_json
    ELSE /\ g_pc' = "loop"
         /\ out_json' = [out_json EXCEPT ![tex] = g_xml_dir'[tex]]

\* Lines 135, 154-302: the XML of an earlier run exists; tralics is not run.
GorcExists ==
    /\ g_pc = "loop" /\ g_tex < MaxTex
    /\ g_xml_dir[g_tex + 1] # "absent"
    /\ g_tex' = g_tex + 1
    /\ UNCHANGED g_xml_dir
    /\ \E raises \in BOOLEAN : Extracted(g_tex + 1, raises)
    /\ UNCHANGED g_runs
    /\ UNCHANGED <<a_vars, r_vars, n_vars, x_vars, e_vars>>

\* Lines 135-149, 154-302: tralics ends within the timeout.
GorcTralicsEnds ==
    /\ g_pc = "loop" /\ g_tex < MaxTex
    /\ g_xml_dir[g_tex + 1] = "absent"
    /\ g_tex' = g_tex + 1
    /\ \E output \in {"complete", "absent"} :
         /\ g_xml_dir' = [g_xml_dir EXCEPT ![g_tex + 1] = output]
         /\ IF output = "absent"
            THEN UNCHANGED <<out_json, g_pc>>
            ELSE \E raises \in BOOLEAN : Extracted(g_tex + 1, raises)
    /\ UNCHANGED g_runs
    /\ UNCHANGED <<a_vars, r_vars, n_vars, x_vars, e_vars>>

\* Lines 148-151: subprocess.run raises TimeoutExpired; the loop continues.
GorcTralicsTimeout ==
    /\ g_pc = "loop" /\ g_tex < MaxTex
    /\ g_xml_dir[g_tex + 1] = "absent"
    /\ g_tex' = g_tex + 1
    /\ \E output \in {"partial", "absent"} :
         g_xml_dir' = [g_xml_dir EXCEPT ![g_tex + 1] = output]
    /\ UNCHANGED <<g_runs, out_json, g_pc>>
    /\ UNCHANGED <<a_vars, r_vars, n_vars, x_vars, e_vars>>

\* The loop of convert_latex_to_gorc.py is over.
GorcDone ==
    /\ g_pc = "loop" /\ g_tex = MaxTex
    /\ g_pc' = "done"
    /\ UNCHANGED <<g_tex, g_runs, g_xml_dir, out_json>>
    /\ UNCHANGED <<a_vars, r_vars, n_vars, x_vars, e_vars>>

ConvertInit ==
    /\ x_tex = 0 /\ x_runs = 0
    /\ xml_dir = [t \in TexFiles |-> "absent"]
    /\ skipped_files = <<>>
    /\ x_pc = "start"
    /\ g_tex = 0 /\ g_runs = 0
    /\ g_xml_dir = [t \in TexFiles |-> "absent"]
    /\ out_json = [t \in TexFiles |-> "absent"]
    /\ g_pc = "start"

(***************************************************************************)
(* convert_latex_to_gorc.py: the parse tree                                *)
(* A node of the BeautifulSoup tree is an element (tag, attributes,        *)
(* children) or a string (tag "#text").  has holds the names of the        *)
(* attributes the element carries.  No p, cit or div0 element lies inside  *)
(* an element of the same tag: the code edits the live tree while it holds *)
(* lists of its nodes, and without such nesting each node of a list is     *)
(* still what it was when the list was made.                               *)
(***************************************************************************)
Str(s) ==
    [tag |-> "#text", has |-> {}, target |-> <<>>, id |-> <<>>, str |-> s,
     kids |-> <<>>]

Elem(tag, kids) ==
    [tag |-> tag, has |-> {}, target |-> <<>>, id |-> <<>>, str |-> <<>>,
     kids |-> kids]

RefTo(target) ==
    [tag |-> "ref", has |-> {"target"}, target |-> target, id |-> <<>>,
     str |-> <<>>, kids |-> <<>>]

BibItem(id) ==
    [tag |-> "bibitem", has |-> {"id"}, target |-> <<>>, id |-> id,
     str |-> <<>>, kids |-> <<>>]

\* What find() and the attribute access soup.<tag> return when nothing matches.
None == Elem("#none", <<>>)

RECURSIVE TextOf(_)
\* Tag.text: the strings of the subtree, in document order, joined.
TextOf(n) ==
    IF n.tag = "#text" THEN n.str
    ELSE Concat([i \in 1..Len(n.kids) |-> TextOf(n.kids[i])])

RECURSIVE FindAll(_, _)
\* n.find_all(tag): the descendants of that tag, in document order.
FindAll(n, tag) ==
    Concat([i \in 1..Len(n.kids) |->
               (IF n.kids[i].tag = tag THEN <<n.kids[i]>> ELSE <<>>)
               \o FindAll(n.kids[i], tag)])

\* n.find(tag), n.<tag>: the first such descendant, or None.
Find(n, tag) ==
    LET all == FindAll(n, tag) IN IF all = <<>> THEN None ELSE all[1]

RECURSIVE DecomposeAll(_, _)
\* for x in n.find_all(tag): x.decompose()
DecomposeAll(n, tag) ==
    LET kept == SelectSeq(n.kids, LAMBDA k : k.tag # tag)
    IN  [n EXCEPT !.kids = [i \in 1..Len(kept) |-> DecomposeAll(kept[i], tag)]]

RECURSIVE ReplaceAll(_, _, _)
\* for x in n.find_all(tag): x.replace_with(soup.new_string(s))
ReplaceAll(n, tag, s) ==
    [n EXCEPT !.kids = [i \in 1..Len(n.kids) |->
        IF n.kids[i].tag = tag THEN Str(s) ELSE ReplaceAll(n.kids[i], tag, s)]]

\* str.startswith
StartsWith(s, prefix) ==
    Len(s) >= Len(prefix) /\ SubSeq(s, 1, Len(prefix)) = prefix

\* Lines 88-90: rtag.get('target') and not rtag.get('target').startswith('bid')
IsOtherRef(n) ==
    /\ n.tag = "ref"
    /\ "target" \in n.has /\ n.target # <<>>
    /\ ~StartsWith(n.target, <<"b", "i", "d">>)

RECURSIVE ReplaceRefs(_)
\* Lines 88-90: every reference that is no citation becomes the string REF.
ReplaceRefs(n) ==
    [n EXCEPT !.kids = [i \in 1..Len(n.kids) |->
        IF IsOtherRef(n.kids[i]) THEN Str(<<"R", "E", "F">>)
        ELSE ReplaceRefs(n.kids[i])]]

\* Line 95: cite.ref.get('target').upper() raises AttributeError when cite.ref
\* or the target is None.
CiteRaises(cite) ==
    \/ Find(cite, "ref") = None
    \/ "target" \notin Find(cite, "ref").has

RECURSIVE ReplaceCites(_)
\* Lines 93-96: every citation becomes its target, upper-cased.
ReplaceCites(n) ==
    [n EXCEPT !.kids = [i \in 1..Len(n.kids) |->
        IF n.kids[i].tag = "cit"
        THEN Str(Upper(Find(n.kids[i], "ref").target))
        ELSE ReplaceCites(n.kids[i])]]

\* f"{tag.upper()}" for the three tags of strip_tags.
FORMULA == <<"F", "O", "R", "M", "U", "L", "A">>
FIGURE == <<"F", "I", "G", "U", "R", "E">>
TABLE == <<"T", "A", "B", "L", "E">>

\* Lines 82-90: the paragraph after the replacements that cannot raise.
Stripped(para_el) ==
    ReplaceRefs(
        ReplaceAll(ReplaceAll(ReplaceAll(para_el, "formula", FORMULA),
                              "figure", FIGURE),
                   "table", TABLE))

RECURSIVE finditerOneBased(_, _)
\* The scan with its offsets counted from 1 instead of 0.
finditerOneBased(text, i) ==
    IF i > Len(text) THEN <<>>
    ELSE IF /\ i + 3 <= Len(text)
            /\ text[i] = "B" /\ text[i + 1] = "I" /\ text[i + 2] = "D"
            /\ IsDigit(text[i + 3])
         THEN LET end == CHOOSE e \in (i + 3)..Len(text) :
                            /\ \A j \in (i + 3)..e : IsDigit(text[j])
                            /\ (e = Len(text) \/ ~IsDigit(text[e + 1]))
              IN  << <<i, end + 1, SubSeq(text, i, end)>> >>
                  \o finditerOneBased(text, end + 1)
    ELSE finditerOneBased(text, i + 1)

RECURSIVE finditer(_, _)
\* re.finditer(r'(BID\d+)', text) from position i on (1-based), as the list of
\* [span.start(), span.start() + len(span.group()), span.group()].
finditer(text, i) ==
    IF i > Len(text) THEN <<>>
    ELSE IF /\ i + 3 <= Len(text)
            /\ text[i] = "B" /\ text[i + 1] = "I" /\ text[i + 2] = "D"
            /\ IsDigit(text[i + 3])
         THEN LET end == CHOOSE e \in (i + 3)..Len(text) :
                            /\ \A j \in (i + 3)..e : IsDigit(text[j])
                            /\ (e = Len(text) \/ ~IsDigit(text[e + 1]))
              IN  << <<i - 1, end, SubSeq(text, i, end)>> >> \o finditer(text, end + 1)
    ELSE finditer(text, i + 1)

\* Lines 97, 108-114 (and 255, 258-264): the text and the spans of a paragraph
\* whose replacements are done.  The text is taken before lines 100-105
\* decompose the floats and the notes, which therefore changes nothing in it.
TextAndSpans(para_el, section_name) ==
    LET text == SubSpace(TextOf(para_el))
    IN  [text |-> text, mention_spans |-> finditer(text, 1), section |-> section_name]

\* Lines 82-120 (and 239-269): the TextBlock, or the AttributeError of line 95.
process_paragraph(para_el, section_name) ==
    LET stripped == Stripped(para_el)
        citations == FindAll(stripped, "cit")
    IN  IF \E i \in 1..Len(citations) : CiteRaises(citations[i])
        THEN [raised |-> "AttributeError", block |-> <<>>]
        ELSE [raised |-> "",
              block |-> TextAndSpans(ReplaceCites(stripped), section_name)]

(***************************************************************************)
(* convert_latex_to_gorc.py: the extraction of one paper, lines 157-302    *)
(***************************************************************************)
RECURSIVE CollapseSpace(_)
\* re.sub(r'\s+', ' ', line)
CollapseSpace(s) ==
    IF s = <<>> THEN <<>>
    ELSE IF IsSpace(Head(s))
         THEN <<" ">> \o CollapseSpace(LStrip(s))
    ELSE <<Head(s)>> \o CollapseSpace(Tail(s))

RECURSIVE JoinSpace(_)
\* ' '.join(lines)
JoinSpace(lines) ==
    IF lines = <<>> THEN <<>>
    ELSE IF Len(lines) = 1 THEN lines[1]
    ELSE lines[1] \o <<" ">> \o JoinSpace(Tail(lines))

\* process_bibentry(bib_text)
process_bibentry(bib_text) ==
    LET bib_lines == SplitOn(bib_text, "\n", <<>>)
    IN  JoinSpace([i \in 1..Len(bib_lines) |->
                      Strip(SubSpace(CollapseSpace(bib_lines[i])))])

RECURSIVE WithParentP(_, _, _)
\* The descendants of n of that tag, each with bi.find_parent('p'): the nearest
\* p element above it (encl above n), or None.
WithParentP(n, tag, encl) ==
    Concat([i \in 1..Len(n.kids) |->
               (IF n.kids[i].tag = tag
                THEN << [node |-> n.kids[i], parent_p |-> encl] >> ELSE <<>>)
               \o WithParentP(n.kids[i], tag,
                              IF n.kids[i].tag = "p" THEN n.kids[i] ELSE encl)])

RECURSIVE DropFirst(_, _)
\* The children kids after the first element of that tag below them, in
\* document order, is decomposed (soup.Bibliography.decompose()).
DropFirst(kids, tag) ==
    IF kids = <<>> THEN [done |-> FALSE, kids |-> <<>>]
    ELSE IF Head(kids).tag = tag THEN [done |-> TRUE, kids |-> Tail(kids)]
    ELSE LET inner == DropFirst(Head(kids).kids, tag)
             rest == DropFirst(Tail(kids), tag)
         IN  IF inner.done
             THEN [done |-> TRUE,
                   kids |-> <<[Head(kids) EXCEPT !.kids = inner.kids]>> \o Tail(kids)]
             ELSE [done |-> rest.done, kids |-> <<Head(kids)>> \o rest.kids]

\* Lines 170-173: the bibliography items that carry an id, each with the p
\* element above it.
BibItems(tree) ==
    LET bibs == WithParentP(tree, "Bibliography", None)
        items == WithParentP(bibs[1].node, "bibitem", bibs[1].parent_p)
    IN  SelectSeq(items, LAMBDA b : "id" \in b.node.has /\ b.node.id # <<>>)

\* Lines 167-173: bibkey_map; a later item of the same id overwrites.
BibkeyMap(items) ==
    [key \in {Upper(items[i].node.id) : i \in 1..Len(items)} |->
        LET last == CHOOSE i \in 1..Len(items) :
                        /\ Upper(items[i].node.id) = key
                        /\ \A j \in 1..Len(items) :
                              Upper(items[j].node.id) = key => j <= i
        IN  process_bibentry(TextOf(items[last].parent_p))]

\* Lines 160-179.  bi.find_parent('p').text raises AttributeError for an item
\* with no p above it.
ExtractClean ==
    /\ e_pc = "parsed"
    /\ LET s1 == DecomposeAll(xml, "unexpected")
           hasBib == Find(s1, "Bibliography") # None
           items == IF hasBib THEN BibItems(s1) ELSE <<>>
           s2 == IF hasBib
                 THEN [s1 EXCEPT !.kids = DropFirst(s1.kids, "Bibliography").kids]
                 ELSE s1
       IN  IF \E i \in 1..Len(items) : items[i].parent_p = None
           THEN /\ e_pc' = "raised" /\ e_exc' = "AttributeError"
                /\ UNCHANGED <<soup, bibkey_map>>
           ELSE /\ bibkey_map' = BibkeyMap(items)
                /\ soup' = DecomposeAll(s2, "float")
                /\ e_pc' = "body"
                /\ UNCHANGED e_exc
    /\ UNCHANGED <<xml, body_text, title, authors, year, abstract, ps, gorc_entry>>
    /\ UNCHANGED <<a_vars, r_vars, n_vars, x_vars, g_vars>>

\* One more paragraph goes through process_paragraph (lines 192-194, 200-202).
\* st carries section_title, body_text, the paragraphs passed so far and the
\* exception raised, after which nothing more is done.
AddParagraph(st, para_el) ==
    LET r == process_paragraph(para_el, st.section_title)
    IN  IF st.raised # "" THEN st
        ELSE IF r.raised # "" THEN [st EXCEPT !.raised = r.raised]
        ELSE [st EXCEPT !.body_text = Append(@, r.block),
                        !.passed = Append(@, para_el)]

RECURSIVE AddParagraphs(_, _, _)
\* Lines 199-202: for p in el.find_all('p')
AddParagraphs(st, paras, k) ==
    IF k > Len(paras) THEN st
    ELSE AddParagraphs(AddParagraph(st, paras[k]), paras, k + 1)

\* Lines 187-202: one child of a div0.  el.head.text raises AttributeError for
\* a div1 with no head.
BodyChild(st, el) ==
    IF st.raised # "" THEN st
    ELSE IF el.tag = "head" THEN [st EXCEPT !.section_title = TextOf(el)]
    ELSE IF el.tag = "p" THEN AddParagraph(st, el)
    ELSE IF el.tag = "div1"
         THEN IF Find(el, "head") = None
              THEN [st EXCEPT !.raised = "AttributeError"]
              ELSE AddParagraphs([st EXCEPT !.section_title = TextOf(Find(el, "head"))],
                                 FindAll(el, "p"), 1)
    ELSE st

RECURSIVE BodyChildren(_, _, _)
\* Line 186: for el in div
BodyChildren(st, els, k) ==
    IF k > Len(els) THEN st
    ELSE BodyChildren(BodyChild(st, els[k]), els, k + 1)

RECURSIVE BodyDivs(_, _, _)
\* Line 185: for div in soup.find_all('div0')
BodyDivs(st, divs, k) ==
    IF k > Len(divs) THEN st
    ELSE BodyDivs(BodyChildren(st, divs[k].kids, 1), divs, k + 1)

\* Lines 182-202 on a tree.
BodyWalk(tree) ==
    BodyDivs([section_title |-> <<>>, body_text |-> <<>>, passed |-> <<>>,
              raised |-> ""],
             FindAll(tree, "div0"), 1)

\* Lines 181-203.
ExtractBody ==
    /\ e_pc = "body"
    /\ LET st == BodyWalk(soup)
       IN  IF st.raised # ""
           THEN /\ e_pc' = "raised" /\ e_exc' = st.raised
                /\ UNCHANGED <<soup, body_text>>
           ELSE /\ body_text' = st.body_text
                /\ soup' = DecomposeAll(soup, "div0")
                /\ e_pc' = "header"
                /\ UNCHANGED e_exc
    /\ UNCHANGED <<xml, bibkey_map, title, authors, year, abstract, ps, gorc_entry>>
    /\ UNCHANGED <<a_vars, r_vars, n_vars, x_vars, g_vars>>

\* Lines 205-219.  Only AttributeError is caught: the IndexError of
\* process_authors leaves the script.
ExtractHeader ==
    /\ e_pc = "header"
    /\ title' = IF Find(soup, "title") = None THEN <<>>
                ELSE TextOf(Find(soup, "title"))
    /\ year' = IF Find(soup, "year") = None THEN <<>>
               ELSE TextOf(Find(soup, "year"))
    /\ LET made == IF Find(soup, "author") = None
                   THEN [raised |-> "", value |-> <<>>]
                   ELSE process_authors(Strip(TextOf(Find(soup, "author"))), FALSE)
       IN  IF made.raised # ""
           THEN /\ e_pc' = "raised" /\ e_exc' = made.raised
                /\ UNCHANGED authors
           ELSE /\ authors' = made.value
                /\ e_pc' = "abstract"
                /\ UNCHANGED e_exc
    /\ UNCHANGED <<xml, soup, bibkey_map, body_text, abstract, ps, gorc_entry>>
    /\ UNCHANGED <<a_vars, r_vars, n_vars, x_vars, g_vars>>

\* Python's None as a section: no text equals it.
NoSection == <<"None">>

\* Lines 227-228: text_len.index(max(text_len))
AbstractEntry(paras) ==
    CHOOSE i \in 1..Len(paras) :
        /\ \A j \in 1..Len(paras) : Len(TextOf(paras[j])) <= Len(TextOf(paras[i]))
        /\ \A j \in 1..(i - 1) : Len(TextOf(paras[j])) < Len(TextOf(paras[i]))

\* Lines 231-269: the abstract of the paragraph abs_p.
AbstractOf(abs_p) ==
    IF Len(abs_p.kids) = 1
    THEN [raised |-> "",
          block |-> [text |-> SubSpace(TextOf(abs_p)), mention_spans |-> <<>>,
                     section |-> NoSection]]
    ELSE process_paragraph(abs_p, NoSection)

\* del ps[i], i counted from 0
Del(list, i) == SubSeq(list, 1, i) \o SubSeq(list, i + 2, Len(list))

\* Lines 221-271.
ExtractAbstract ==
    /\ e_pc = "abstract"
    /\ LET found == FindAll(soup, "p")
       IN  IF found = <<>>
           THEN /\ abstract' = <<>>
                /\ ps' = <<>>
                /\ e_pc' = "fallback"
                /\ UNCHANGED e_exc
           ELSE LET abstract_entry == AbstractEntry(found)
                    made == AbstractOf(found[abstract_entry])
                IN  IF made.raised # ""
                    THEN /\ e_pc' = "raised" /\ e_exc' = made.raised
                         /\ UNCHANGED <<abstract, ps>>
                    ELSE /\ abstract' = made.block
                         /\ ps' = Del(found, abstract_entry - 1)
                         /\ e_pc' = "fallback"
                         /\ UNCHANGED e_exc
    /\ UNCHANGED <<xml, soup, bibkey_map, body_text, title, authors, year, gorc_entry>>
    /\ UNCHANGED <<a_vars, r_vars, n_vars, x_vars, g_vars>>

\* re.match(r'\d{4}', text)
FourDigits(text) ==
    Len(text) >= 4 /\ \A j \in 1..4 : IsDigit(text[j])

RECURSIVE YearLoop(_, _, _)
\* Lines 275-278: for i, p in enumerate(ps), with del ps[i] inside the loop and
\* no break: the iterator goes on at i + 1 of the shortened list.
YearLoop(list, i, y) ==
    IF i >= Len(list) THEN [ps |-> list, year |-> y]
    ELSE IF FourDigits(TextOf(list[i + 1]))
         THEN YearLoop(Del(list, i), i + 1, TextOf(list[i + 1]))
    ELSE YearLoop(list, i + 1, y)

\* Lines 273-286.
ExtractFallback ==
    /\ e_pc = "fallback"
    /\ LET scanned == IF year = <<>> /\ ps # <<>>
                      THEN YearLoop(ps, 0, year)
                      ELSE [ps |-> ps, year |-> year]
           made == IF authors = <<>> /\ Len(scanned.ps) > 1
                   THEN process_authors(Strip(TextOf(scanned.ps[2])), FALSE)
                   ELSE [raised |-> "", value |-> authors]
       IN  IF made.raised # ""
           THEN /\ e_pc' = "raised" /\ e_exc' = made.raised
                /\ UNCHANGED <<ps, year, title, authors>>
           ELSE /\ ps' = scanned.ps
                /\ year' = scanned.year
                /\ title' = IF title = <<>> /\ scanned.ps # <<>>
                            THEN TextOf(scanned.ps[1]) ELSE title
                /\ authors' = made.value
                /\ e_pc' = "write"
                /\ UNCHANGED e_exc
    /\ UNCHANGED <<xml, soup, bibkey_map, body_text, abstract, gorc_entry>>
    /\ UNCHANGED <<a_vars, r_vars, n_vars, x_vars, g_vars>>

\* Lines 288-302.
ExtractWrite ==
    /\ e_pc = "write"
    /\ gorc_entry' =
         [paper_id |-> "arxiv_id",
          metadata |-> [title |-> title, authors |-> authors, year |-> year],
          abstract |-> <<abstract>>,
          body_text |-> body_text,
          bib_entries |-> bibkey_map]
    /\ e_pc' = "done"
    /\ UNCHANGED <<xml, soup, bibkey_map, body_text, title, authors, year, abstract,
                   ps, e_exc>>
    /\ UNCHANGED <<a_vars, r_vars, n_vars, x_vars, g_vars>>

(***************************************************************************)
(* The parse trees the extraction is run on.                               *)
(***************************************************************************)
Para(kids) == Elem("p", kids)

Cit(target) == Elem("cit", <<RefTo(target)>>)

\* What a paragraph is made of: text, citations (whole, without ref, with a
\* ref that has no target), a cross-reference, a formula, a footnote that holds
\* a citation, a float.
InlineItems ==
    { Str(<<"x", "\n">>),
      Cit(<<"b", "i", "d", "1", "2">>),
      Elem("cit", <<>>),
      Elem("cit", <<Elem("ref", <<>>)>>),
      RefTo(<<"s", "e", "c">>),
      Elem("formula", <<Str(<<"y">>)>>),
      Elem("note", <<Str(<<"n">>), Cit(<<"b", "i", "d", "3">>)>>),
      Elem("float", <<Str(<<"f">>)>>) }

RECURSIVE InlineSeqs(_)
InlineSeqs(n) ==
    IF n = 0 THEN { <<>> }
    ELSE { Append(q, x) : q \in InlineSeqs(n - 1), x \in InlineItems }

RichParas == { Para(q) : q \in UNION { InlineSeqs(n) : n \in 1..MaxInline } }

TitleNode == Elem("title", <<Str(<<"T">>)>>)
YearNode == Elem("year", <<Str(<<"2", "0", "2", "0">>)>>)
AuthorNode == Elem("author", <<Str(<<" ", "x", " ", "y", " ", "J", "r">>)>>)
SuffixOnlyAuthorNode == Elem("author", <<Str(<<"x", " ", "y", ",", " ", "J", "r">>)>>)

AbstractPara ==
    Para(<<Str(<<"a", "b", "s", " ">>), Cit(<<"b", "i", "d", "1", "2">>),
           Str(<<"B", "I", "D", "7", "B", "I", "D">>)>>)

\* The paragraphs of the front matter.
FrontParas ==
    { Para(<<Str(<<"2", "0", "0", "1">>)>>),
      Para(<<Str(<<"1", "9", "9", "9", "\n", "z">>)>>),
      Para(<<Str(<<"V">>)>>),
      AbstractPara }

RECURSIVE FrontSeqs(_)
FrontSeqs(n) ==
    IF n = 0 THEN { <<>> }
    ELSE { Append(q, x) : q \in FrontSeqs(n - 1), x \in FrontParas }

Headers ==
    { <<>>, <<TitleNode>>, <<TitleNode, AuthorNode, YearNode>>,
      <<SuffixOnlyAuthorNode>> }

Root(kids) == Elem("[document]", kids)

\* Front matter only: the header nodes and up to MaxFront paragraphs.
FrontDocs ==
    { Root(h \o q) : h \in Headers, q \in UNION { FrontSeqs(n) : n \in 0..MaxFront } }

HeadNode(c) == Elem("head", <<Str(<<c>>)>>)

\* A title, an abstract and one section around a paragraph.
BodyDocs ==
    UNION { { Root(<<TitleNode, AbstractPara, Elem("div0", <<HeadNode("h"), r>>)>>),
              Root(<<TitleNode, AbstractPara,
                     Elem("div0", <<Elem("div1", <<HeadNode("s"), r>>)>>)>>) } :
            r \in RichParas }
    \cup
    { Root(<<Elem("div0", <<Elem("div1", <<Para(<<Str(<<"x">>)>>)>>)>>)>>),
      Root(<<Elem("div0", <<Para(<<Str(<<"x">>)>>), Str(<<"\n">>), HeadNode("h"),
                            Elem("list", <<Para(<<Str(<<"y">>)>>)>>)>>),
             Elem("unexpected", <<Para(<<Str(<<"u">>)>>)>>),
             Elem("div0", <<Para(<<Str(<<"z">>)>>)>>)>>) }

BibPara(id) ==
    Para(<<BibItem(id), Str(<<"A", " ", " ", "B", "\n", " ", "C">>)>>)

\* Bibliographies: items with and without id, with and without a paragraph
\* around them, and the same id twice.
BibDocs ==
    { Root(<<AbstractPara,
             Elem("Bibliography", <<BibPara(<<"b", "i", "d", "1">>),
                                    BibPara(<<"b", "i", "d", "2">>)>>)>>),
      Root(<<Elem("Bibliography", <<BibPara(<<"b", "i", "d", "1">>),
                                    Para(<<BibItem(<<"b", "i", "d", "1">>),
                                           Str(<<"D">>)>>)>>)>>),
      Root(<<Elem("Bibliography", <<BibItem(<<"b", "i", "d", "1">>)>>)>>),
      Root(<<Elem("Bibliography", <<Para(<<Elem("bibitem", <<>>), Str(<<"E">>)>>),
                                    Elem("bibitem", <<>>)>>)>>),
      Root(<<Para(<<Str(<<"o">>),
                    Elem("Bibliography", <<BibItem(<<"b", "i", "d", "1">>)>>)>>)>>) }

XmlDocs == FrontDocs \cup BodyDocs \cup BibDocs

ExtractInit ==
    /\ xml \in XmlDocs
    /\ soup = None
    /\ bibkey_map = <<>>
    /\ body_text = <<>>
    /\ title = <<>> /\ authors = <<>> /\ year = <<>>
    /\ abstract = <<>>
    /\ ps = <<>>
    /\ gorc_entry = <<>>
    /\ e_pc = "parsed"
    /\ e_exc = ""

(***************************************************************************)
(* Specifications: one per program.  The state of the programs a           *)
(* specification does not run stays idle.                                  *)
(***************************************************************************)
AuthorsIdle ==
    /\ author_text = <<>> /\ minimal = FALSE
    /\ author_entries = [raised |-> "", value |-> <<>>] /\ a_pc = "idle"

ReaderIdle ==
    /\ blob = <<>> /\ is_gzip = FALSE /\ magic_label = "" /\ chardet_label = ""
    /\ cntnt = StrResult(<<>>) /\ r_pc = "idle"

NormalizeIdle ==
    /\ fn = 0 /\ files = <<>> /\ main_tex_path = NoPath /\ ignored_names = <<>>
    /\ latexpand_args = <<>> /\ out_tex = {} /\ log_txt = <<>> /\ n_pc = "idle"

ConvertIdle ==
    /\ x_tex = 0 /\ x_runs = 0 /\ xml_dir = <<>> /\ skipped_files = <<>>
    /\ x_pc = "idle"
    /\ g_tex = 0 /\ g_runs = 0 /\ g_xml_dir = <<>> /\ out_json = <<>>
    /\ g_pc = "idle"

ExtractIdle ==
    /\ xml = None /\ soup = None /\ bibkey_map = <<>> /\ body_text = <<>>
    /\ title = <<>> /\ authors = <<>> /\ year = <<>> /\ abstract = <<>>
    /\ ps = <<>> /\ gorc_entry = <<>> /\ e_pc = "idle" /\ e_exc = ""

InitConvert == ConvertInit /\ AuthorsIdle /\ ReaderIdle /\ NormalizeIdle /\ ExtractIdle

ConvertNext ==
    \/ XmlStart
    \/ XmlExists
    \/ XmlTralicsEnds
    \/ XmlTralicsTimeout
    \/ XmlDone
    \/ GorcStart
    \/ GorcExists
    \/ GorcTralicsEnds
    \/ GorcTralicsTimeout
    \/ GorcDone

SpecConvert ==
    /\ InitConvert
    /\ [][ConvertNext]_vars

InitExtract ==
    ExtractInit /\ AuthorsIdle /\ ReaderIdle /\ NormalizeIdle /\ ConvertIdle

ExtractNext ==
    \/ ExtractClean
    \/ ExtractBody
    \/ ExtractHeader
    \/ ExtractAbstract
    \/ ExtractFallback
    \/ ExtractWrite

SpecExtract ==
    /\ InitExtract
    /\ [][ExtractNext]_vars

InitAuthors == AuthorsInit /\ ReaderIdle /\ NormalizeIdle /\ ConvertIdle /\ ExtractIdle

SpecAuthors ==
    /\ InitAuthors
    /\ [][CallProcessAuthors]_vars

ReaderNext ==
    \/ CallReadFile
    \/ CallReadGzippedFile

InitReader == ReaderInit /\ AuthorsIdle /\ NormalizeIdle /\ ConvertIdle /\ ExtractIdle

SpecReader ==
    /\ InitReader
    /\ [][ReaderNext]_vars

NormalizeNext ==
    \/ NormalizeEnter
    \/ LocateMain
    \/ ListdirRaises
    \/ GiveUp
    \/ Flatten
    \/ NormalizeReturn

InitNormalize == NormalizeInit /\ AuthorsIdle /\ ReaderIdle /\ ConvertIdle /\ ExtractIdle

SpecNormalize ==
    /\ InitNormalize
    /\ [][NormalizeNext]_vars

\* C8: process_authors returns a sequence for every input string, one entry per
\* non-empty fragment, with suffix, first, last and middle as the tokens give them.
C8_ProcessAuthorsTotal ==
    a_pc = "returned" =>
        /\ author_entries.raised = ""
        /\ LET names == AuthorNames(author_text)
           IN  /\ Len(author_entries.value) = Len(names)
               /\ \A i \in 1..Len(names) :
                    LET toks == SplitWs(names[i], <<>>)
                        suf == toks[Len(toks)] \in NameSuffixes
                        rest == IF suf THEN SubSeq(toks, 1, Len(toks) - 1) ELSE toks
                        e == author_entries.value[i]
                    IN  /\ e.suffix = (IF suf THEN toks[Len(toks)] ELSE <<>>)
                        /\ e.first = rest[1]
                        /\ e.last = rest[Len(rest)]
                        /\ e.middle = SubSeq(rest, 2, Len(rest) - 1)
                        /\ (Len(rest) = 1 => e.first = e.last /\ e.middle = <<>>)

\* The strict decodes of the chain all fail.
StrictDecodesFail ==
    /\ (~is_gzip => ~Utf8(blob, FALSE).ok)
    /\ Decode(blob, magic_label, FALSE).exc # ""

\* C6: the encoding resolver never raises and returns a string in every case:
\* the empty string when the strict decodes fail and the detector has no label.
C6_ResolverReturnsString ==
    r_pc = "returned" =>
        /\ cntnt.raised = ""
        /\ cntnt.kind = "str"
        /\ (StrictDecodesFail /\ chardet_label = "None" => cntnt.text = <<>>)

\* The last file of the listing that satisfies Pick, or no path.
LastFile(listing, Pick(_)) ==
    LET hits == {k \in 1..Len(listing) : Pick(listing[k])}
    IN  IF hits = {} THEN NoPath
        ELSE listing[CHOOSE k \in hits : \A j \in hits : j <= k].name

\* The decoded content of the file contains the \begin{document} marker.
HasMarker(f) == f.read.raised = "" /\ MAIN_TEX_PATT(f.read.text)

MarkedTex(f) == TEX_EXT_PATT(Splitext1(f.name)) /\ HasMarker(f)

MarkedOther(f) ==
    /\ ~TEX_EXT_PATT(Splitext1(f.name))
    /\ ~NON_TEXT_PATT(Splitext1(f.name))
    /\ HasMarker(f)

\* C1: the main-file locator returns the last .tex file with the marker if there
\* is one, otherwise the last non-.tex, non-image file with the marker, otherwise
\* null.
C1_LocatorLastMatch ==
    n_pc = "located" =>
        main_tex_path =
            IF \E k \in 1..Len(files) : MarkedTex(files[k])
            THEN LastFile(files, MarkedTex)
            ELSE LastFile(files, MarkedOther)

\* Two .tex files hold the marker and the second one is returned.
C1_WitnessLastTex ==
    /\ n_pc = "located" /\ Len(files) = 2
    /\ MarkedTex(files[1]) /\ MarkedTex(files[2])
    /\ main_tex_path = files[2].name

\* C4: a per-paper failure never aborts the batch: once IN_DIR is a directory,
\* the call ends only after every paper of the listing, by returning.
C4_BatchNeverAborted ==
    /\ n_pc # "raised"
    /\ (n_pc = "returned_true" => fn = MaxPapers)

\* The elements of a sequence.
Range(seq) == {seq[i] : i \in 1..Len(seq)}

\* C5: a paper whose tralics invocation timed out is in the skip list, none of
\* its partial output is kept, and no record is ever written from such output.
C5_TimeoutSkippedAndDiscarded ==
    [][/\ XmlTralicsTimeout =>
            /\ x_tex' \in Range(skipped_files')
            /\ xml_dir'[x_tex'] = "absent"
       /\ GorcTralicsTimeout => g_xml_dir'[g_tex'] = "absent"
       /\ \A t \in TexFiles : out_json'[t] # "partial"]_vars

\* The token is BID followed by one or more digits.
IsBidToken(token) ==
    /\ Len(token) >= 4
    /\ SubSeq(token, 1, 3) = <<"B", "I", "D">>
    /\ \A j \in 4..Len(token) : IsDigit(token[j])

\* The spans of a TextBlock cut their tokens out of its text, in ascending
\* order and without overlap.
SpansConsistent(b) ==
    /\ \A i \in 1..Len(b.mention_spans) :
         LET span == b.mention_spans[i]
         IN  /\ 0 <= span[1] /\ span[1] < span[2] /\ span[2] <= Len(b.text)
             /\ SubSeq(b.text, span[1] + 1, span[2]) = span[3]
             /\ IsBidToken(span[3])
    /\ \A i, j \in 1..Len(b.mention_spans) :
         i < j => b.mention_spans[i][2] <= b.mention_spans[j][1]

\* C2: in every TextBlock of process_paragraph and of the abstract branch, each
\* span [start, end, token] has text[start:end] == token, token is BID and
\* digits, and the spans are sorted by start and do not overlap.
C2_SpansConsistent ==
    /\ \A i \in 1..Len(body_text) : SpansConsistent(body_text[i])
    /\ (abstract # <<>> => SpansConsistent(abstract))

\* A body paragraph with two citations and an abstract with two.
C2_WitnessTwoSpans ==
    /\ e_pc = "done"
    /\ \E i \in 1..Len(body_text) : Len(body_text[i].mention_spans) = 2
    /\ Len(abstract.mention_spans) = 2

\* C3: the extraction never raises because a node is missing.
C3_NeverRaisesOnMissingNode == e_exc # "AttributeError"

\* C7: in every record written, abstract is one TextBlock (text, mention_spans,
\* section), its section null.
C7_AbstractOneTextBlock ==
    e_pc = "done" =>
        /\ Len(gorc_entry.abstract) = 1
        /\ DOMAIN gorc_entry.abstract[1] = {"text", "mention_spans", "section"}
        /\ gorc_entry.abstract[1].section = NoSection

\* The places of the pool whose text begins with four digits.
YearParas(pool) == {i \in 1..Len(pool) : FourDigits(TextOf(pool[i]))}

\* C9: when the year is unresolved, it is taken from the first paragraph of the
\* pool that begins with four digits, and only that paragraph leaves the pool.
C9_YearFromFirstMatch ==
    [][(/\ ExtractFallback /\ e_pc' = "write"
        /\ year = <<>> /\ YearParas(ps) # {})
       => LET first == CHOOSE i \in YearParas(ps) : \A j \in YearParas(ps) : i <= j
          IN  /\ year' = TextOf(ps[first])
              /\ ps' = Del(ps, first - 1)]_vars

\* The text the paragraph gives once its replacements are done and its float
\* and note subtrees are deleted.
TextWithoutNotes(para_el) ==
    SubSpace(TextOf(DecomposeAll(DecomposeAll(ReplaceCites(Stripped(para_el)),
                                              "float"), "note")))

\* C10: the text of the TextBlock of a paragraph holds nothing of its note and
\* float subtrees, and no span comes from a citation inside them.
C10_NotesLeaveNoText ==
    [][(ExtractBody /\ e_pc' = "header")
       => \A i \in 1..Len(body_text') :
            /\ body_text'[i].text = TextWithoutNotes(BodyWalk(soup).passed[i])
            /\ body_text'[i].mention_spans =
                   finditer(TextWithoutNotes(BodyWalk(soup).passed[i]), 1)]_vars
====
